---- MODULE Spec2Model ----
(***************************************************************************)
(* Inventera.nu: the REST mutation handlers of registerRoutes, the         *)
(* DatabaseStorage they write to, the WebSocket fan-out (broadcast over    *)
(* wss.clients) and the client's handleWebSocketMessage.                   *)
(*                                                                         *)
(* A handler is an async function: every `await storage.f()` is a point    *)
(* where another handler may run, so a handler is one action per storage   *)
(* call (the code in front of the call is part of that action) and one     *)
(* action for the code behind the last await (broadcast and response).     *)
(* broadcast itself has no await and is one atomic step.                   *)
(*                                                                         *)
(* null is modelled as 0, undefined as the record Undefined, a timestamp   *)
(* as the value of clock.                                                  *)
(***************************************************************************)
EXTENDS Integers, Sequences, FiniteSets, TLC

\* ------------------------------------------------------------------------
\* Bounds
\* ------------------------------------------------------------------------
MaxSessions == 2        \* WebSocket connections ever accepted
MaxReq == 2             \* HTTP requests ever received

Sessions == 1..MaxSessions
Reqs == 1..MaxReq

VARIABLES
  users,            \* table users:            id -> row
  articles,         \* table articles:         id -> row
  orderLines,       \* table order_lines:      id -> row
  inventoryCounts,  \* table inventory_counts: id -> row
  nextId,           \* stands for randomUUID(): the next unused id
  clock,            \* number of requests received; new Date() reads it
  clients,          \* wss.clients, in insertion (= iteration) order
  readyState,       \* readyState of every socket
  sent,             \* per socket: the frames handed to client.send()
  dead,             \* per socket: the peer is gone, the socket cannot write
  req,              \* per request: kind, position, inputs, locals, response
  bcastLog,         \* history: the calls of broadcast() in call order, each
                    \* with its caller, message, wss.clients and readyState
                    \* as the call found them, and the sockets whose write failed
  lastMsg,          \* client: the message handleWebSocketMessage got last
  invalidated,      \* client: the query keys that call invalidated
  stale,            \* client: the query keys currently marked stale
  inbox             \* client: frames that arrived, onmessage not yet run

storeVars == <<users, articles, orderLines, inventoryCounts, nextId>>
wsVars == <<clients, readyState, sent, dead>>
clientVars == <<lastMsg, invalidated, stale, inbox>>
vars == <<users, articles, orderLines, inventoryCounts, nextId, clock,
          clients, readyState, sent, dead, req, bcastLog,
          lastMsg, invalidated, stale, inbox>>

\* ------------------------------------------------------------------------
\* Values
\* ------------------------------------------------------------------------
Undefined == [undefined |-> TRUE]
NoRows == [i \in {} |-> 0]              \* an empty table / empty list

Range(f) == {f[x] : x \in DOMAIN f}

\* drop key k from the domain of function f
WithoutNothing(f, k) == f
Without(f, k) == [x \in DOMAIN f \ {k} |-> f[x]]
\* add or replace row
WithNothing(f, k, v) == f
With(f, k, v) == [x \in DOMAIN f \cup {k} |-> IF x = k THEN v ELSE f[x]]

ArticleNumbers == {"ART-1", "ART-2"}
PickStatuses == {"Plockat", "Ej plockat"}

\* The request slot before a request arrives.  wrote counts the store
\* writes the request has committed; before is history: the ids in the
\* tables when a clear-data or import request arrived; bodyOk is history:
\* the request body has the shape the schema of its resource asks for;
\* failed is history: a storage call of the request threw; body is
\* history: the JSON body of the request, where a route records it.
IdleReq == [kind |-> "none", pc |-> "idle", id |-> 0, userId |-> 0,
            num |-> 0, str |-> "", loc |-> Undefined, resp |-> 0, message |-> "",
            wrote |-> 0, before |-> Undefined,
            bodyOk |-> TRUE, failed |-> FALSE, body |-> Undefined]

\* ------------------------------------------------------------------------
\* Initial states: seedDatabase has run; database.db is fresh, or holds the
\* rows an earlier run left (the Sample tables).
\* ------------------------------------------------------------------------
SeedUsers == (1 :> [id |-> 1, name |-> "Admin", isActive |-> TRUE, lastActive |-> 0,
                    password |-> "hash(Euro2025!)"])

SampleArticles == (2 :> [id |-> 2, articleNumber |-> "ART-1"])
SampleCounts == (3 :> [id |-> 3, articleId |-> 2, userId |-> 1, count |-> 5, notes |-> 0,
                       createdAt |-> 0])
SampleOrderLines ==
  (4 :> [id |-> 4, pickStatus |-> "Ej plockat", isInventoried |-> FALSE,
         inventoriedBy |-> 0, inventoriedAt |-> 0]) @@
  (5 :> [id |-> 5, pickStatus |-> "Plockat", isInventoried |-> FALSE,
         inventoriedBy |-> 0, inventoriedAt |-> 0])

InitStore(full) ==
  /\ users = SeedUsers
  /\ articles = IF full THEN SampleArticles ELSE NoRows
  /\ inventoryCounts = IF full THEN SampleCounts ELSE NoRows
  /\ orderLines = IF full THEN SampleOrderLines ELSE NoRows
  /\ nextId = 6
  /\ clock = 0
  /\ req = [r \in Reqs |-> IdleReq]
  /\ bcastLog = <<>>

InitClient ==
  /\ lastMsg = Undefined
  /\ invalidated = {}
  /\ stale = {}
  /\ inbox = <<>>

\* the server has started on a fresh database.db; nobody is connected
Init ==
  /\ InitStore(FALSE)
  /\ clients = <<>>
  /\ readyState = [s \in Sessions |-> "NONE"]
  /\ sent = [s \in Sessions |-> <<>>]
  /\ dead = [s \in Sessions |-> FALSE]
  /\ InitClient

\* The server has been running for a while: sockets have connected (in the
\* order of their numbers) and some of them are closing; nothing has been
\* broadcast yet.  The route specifications start here and leave the
\* sockets as they are; SpecFanout explores how sockets come and go.
InitRunning ==
  /\ \E full \in BOOLEAN : InitStore(full)
  /\ \E rs \in [Sessions -> {"NONE", "OPEN", "CLOSING"}] :
       /\ \A s, t \in Sessions : (s < t /\ rs[s] = "NONE") => rs[t] = "NONE"
       /\ readyState = rs
       /\ clients = SelectSeq([i \in 1..MaxSessions |-> i],
                              LAMBDA c : rs[c] \in {"OPEN", "CLOSING"})
  /\ sent = [s \in Sessions |-> <<>>]
  /\ dead = [s \in Sessions |-> FALSE]
  /\ InitClient

\* ------------------------------------------------------------------------
\* WebSocket server (wss) and its sockets
\* ------------------------------------------------------------------------
InClients(s) == \E i \in DOMAIN clients : clients[i] = s

\* wss accepts a connection: the socket is OPEN and joins wss.clients; the
\* "connection" listener only logs and writes nothing to the new socket.
ConnectReplays(s) ==
  /\ readyState[s] = "NONE"
  /\ \A t \in Sessions : t < s => readyState[t] # "NONE"
  /\ readyState' = [readyState EXCEPT ![s] = "OPEN"]
  /\ clients' = Append(clients, s)
  /\ sent' = [sent EXCEPT ![s] = [i \in DOMAIN bcastLog |-> [json |-> bcastLog[i].msg]]]
  /\ UNCHANGED <<storeVars, clock, dead, req, bcastLog, clientVars>>
Connect(s) ==
  /\ readyState[s] = "NONE"
  /\ \A t \in Sessions : t < s => readyState[t] # "NONE"
  /\ readyState' = [readyState EXCEPT ![s] = "OPEN"]
  /\ clients' = Append(clients, s)
  /\ UNCHANGED <<storeVars, clock, sent, dead, req, bcastLog, clientVars>>

\* the closing handshake starts, or the socket reports an error (after a
\* failed write among others): the socket is CLOSING and still in wss.clients
BeginClose(s) ==
  /\ readyState[s] = "OPEN"
  /\ readyState' = [readyState EXCEPT ![s] = "CLOSING"]
  /\ UNCHANGED <<storeVars, clock, clients, sent, dead, req, bcastLog, clientVars>>

\* the peer of an OPEN socket goes away: from now on a write to the socket
\* fails, while the socket still reports OPEN until the error is noticed
PeerLost(s) ==
  /\ readyState[s] = "OPEN" /\ ~dead[s]
  /\ dead' = [dead EXCEPT ![s] = TRUE]
  /\ UNCHANGED <<storeVars, clock, clients, readyState, sent, req, bcastLog, clientVars>>

unregister(cs, s) == SelectSeq(cs, LAMBDA c : c # s)

\* the socket's "close" event: readyState CLOSED, wss drops it from
\* wss.clients, the listener of line 41 logs
CloseEvent(s) ==
  /\ readyState[s] \in {"OPEN", "CLOSING"}
  /\ readyState' = [readyState EXCEPT ![s] = "CLOSED"]
  /\ clients' = unregister(clients, s)
  /\ UNCHANGED <<storeVars, clock, sent, dead, req, bcastLog, clientVars>>

\* ------------------------------------------------------------------------
\* broadcast
\* ------------------------------------------------------------------------
\* JSON.stringify: a key whose value is undefined is left out
JSONstringify(m) ==
  [json |-> IF "data" \in DOMAIN m /\ m.data = Undefined
            THEN [type |-> m.type] ELSE m]
JSONparse(f) == f.json

\* client.readyState === WebSocket.OPEN
CanSendAlways(c) == TRUE
CanSendUnlessClosed(c) == readyState[c] # "CLOSED"
CanSend(c) == readyState[c] = "OPEN"

\* client.send(frame): st is the fan-out state so far; fails says that the
\* socket cannot write the frame.  send() on an OPEN socket returns
\* normally; a failed write is reported later through the socket, not by
\* an exception, and the code passes no callback.
sendThrows(st, c, frame, fails) ==
  [sent |-> [st.sent EXCEPT ![c] = Append(@, frame)], threw |-> fails]
sendPrepends(st, c, frame, fails) ==
  [sent |-> [st.sent EXCEPT ![c] = <<frame>> \o @], threw |-> FALSE]
send(st, c, frame, fails) ==
  [sent |-> [st.sent EXCEPT ![c] = Append(@, frame)], threw |-> FALSE]

\* wss.clients.forEach(...): an exception out of the callback ends the loop
RECURSIVE forEachClient(_, _, _)
forEachClient(cs, st, m) ==
  IF cs = <<>> \/ st.threw THEN st
  ELSE LET c == Head(cs)
           st1 == IF CanSend(c) THEN send(st, c, JSONstringify(m), dead[c]) ELSE st
       IN forEachClient(Tail(cs), st1, m)

\* broadcast(message)
broadcast(m) == forEachClient(clients, [sent |-> sent, threw |-> FALSE], m)

\* the sockets a call of broadcast cannot write to although they are OPEN
FailingNow == {c \in Sessions : InClients(c) /\ readyState[c] = "OPEN" /\ dead[c]}

\* What becomes of a request whose async handler throws outside a try: the
\* handler sends nothing.  Express 4 leaves the rejected promise alone and
\* the request stays without a response (-1); Express 5 hands the error to
\* its error handling, which answers 500.
Rejected == {-1, 500}
Throws(r, code) ==
  [req EXCEPT ![r].pc = "done", ![r].resp = code, ![r].failed = TRUE]

\* The tail of a handler: broadcast(m), then res.status(code).json(...).
\* No handler catches around broadcast (the two imports do, and answer
\* 500): an exception leaves the request to what Rejected says.
\* (answered in the history of the call: the request had its response when
\* broadcast was called.)
RespondAndBroadcast(r, m, code, catches) ==
  LET st == broadcast(m) IN
  /\ req' = [req EXCEPT ![r].pc = "done", ![r].resp = code]
  /\ sent' = st.sent
  /\ bcastLog' = Append(bcastLog, [r |-> r, msg |-> m, threw |-> st.threw,
                                   clients |-> clients, readyState |-> readyState,
                                   failed |-> FailingNow, answered |-> TRUE])
BroadcastAndRespond(r, m, code, catches) ==
  LET st == broadcast(m) IN
  \E uncaught \in Rejected :
  /\ sent' = st.sent
  /\ bcastLog' = Append(bcastLog, [r |-> r, msg |-> m, threw |-> st.threw,
                                   clients |-> clients, readyState |-> readyState,
                                   failed |-> FailingNow,
                                   answered |-> req[r].resp # 0])
  /\ req' = [req EXCEPT ![r].pc = "done",
                        ![r].resp = IF st.threw
                                    THEN (IF catches THEN 500 ELSE uncaught)
                                    ELSE code]

\* res.status(code).json(...) without a broadcast
Respond(r, code) == [req EXCEPT ![r].pc = "done", ![r].resp = code]
\* res.status(code).json({ message: msg })
RespondMessage(r, code, msg) ==
  [req EXCEPT ![r].pc = "done", ![r].resp = code, ![r].message = msg]

\* a request arrives in slot r
Arrives(r) ==
  /\ req[r].pc = "idle"
  /\ r = clock + 1
  /\ clock' = clock + 1

\* ------------------------------------------------------------------------
\* POST /api/articles
\* ------------------------------------------------------------------------
\* insertArticleSchema.safeParse fails: 400.  Otherwise createArticle: the
\* insert violates UNIQUE(article_number) and throws (no response), or the
\* row is stored.
PostArticles(r, valid, an) ==
  /\ Arrives(r)
  /\ IF ~valid
     THEN /\ req' = [req EXCEPT ![r] = [IdleReq EXCEPT !.kind = "POST /api/articles",
                                          !.pc = "done", !.resp = 400,
                                          !.bodyOk = FALSE]]
          /\ UNCHANGED storeVars
     ELSE IF \E a \in Range(articles) : a.articleNumber = an
     THEN /\ \E code \in Rejected :
               req' = [req EXCEPT ![r] = [IdleReq EXCEPT !.kind = "POST /api/articles",
                                            !.str = an, !.pc = "done", !.resp = code,
                                            !.failed = TRUE]]
          /\ UNCHANGED storeVars
     ELSE LET row == [id |-> nextId, articleNumber |-> an] IN
          /\ articles' = With(articles, nextId, row)
          /\ nextId' = nextId + 1
          /\ req' = [req EXCEPT ![r] = [IdleReq EXCEPT !.kind = "POST /api/articles",
                                          !.str = an, !.pc = "broadcast",
                                          !.loc = row, !.wrote = 1]]
          /\ UNCHANGED <<users, orderLines, inventoryCounts>>
  /\ UNCHANGED <<wsVars, bcastLog, clientVars>>

PostArticlesFinish(r) ==
  /\ req[r].kind = "POST /api/articles" /\ req[r].pc = "broadcast"
  /\ BroadcastAndRespond(r, [type |-> "article_created", data |-> req[r].loc], 200, FALSE)
  /\ UNCHANGED <<storeVars, clock, clients, readyState, dead, clientVars>>

\* ------------------------------------------------------------------------
\* Users
\* ------------------------------------------------------------------------
UserNames == {"Anna"}
\* ids a request can name: those of the rows, and 0, the id of no row
IdsOf(table) == DOMAIN table \cup {0}

\* bcrypt.hash(password, 10)
bcryptHash(pw) == "hash(" \o pw \o ")"

\* a row of the table is referenced by a foreign key without ON DELETE
\* CASCADE (inventory_counts.user_id, order_lines.inventoried_by)
UserReferenced(id) ==
  \/ \E c \in Range(inventoryCounts) : c.userId = id
  \/ \E o \in Range(orderLines) : o.inventoriedBy = id

\* Whether the drizzle table users declares the column password.  The
\* schema in src/ declares none, while createUser and seedDatabase pass a
\* password to insert(users) and init-db creates the column: they are
\* written for a schema that declares it.  Both are builds of the program.
PasswordColumnDeclared == BOOLEAN

\* insert/update ... .returning() on users: the declared columns of the row
returningUser(row, declared) ==
  IF declared THEN row ELSE [k \in DOMAIN row \ {"password"} |-> row[k]]

\* POST /api/users: insertUserSchema.safeParse fails: 400.  Otherwise
\* createUser runs up to `await bcrypt.hash`.
PostUsers(r, valid, name) ==
  /\ Arrives(r)
  /\ req' = [req EXCEPT ![r] =
        IF valid
        THEN [IdleReq EXCEPT !.kind = "POST /api/users", !.str = name, !.pc = "insert"]
        ELSE [IdleReq EXCEPT !.kind = "POST /api/users", !.pc = "done", !.resp = 400,
                                          !.bodyOk = FALSE]]
  /\ UNCHANGED <<storeVars, wsVars, bcastLog, clientVars>>

\* createUser, behind the hash: db.insert(users).values(...).returning();
\* a column that is not declared gets the default of the table ('')
PostUsersInsert(r) ==
  /\ req[r].kind = "POST /api/users" /\ req[r].pc = "insert"
  /\ \E declared \in PasswordColumnDeclared :
     LET row == [id |-> nextId, name |-> req[r].str, isActive |-> TRUE,
                 lastActive |-> clock,
                 password |-> IF declared THEN bcryptHash("Euro2025!") ELSE ""] IN
     /\ users' = With(users, nextId, row)
     /\ nextId' = nextId + 1
     /\ req' = [req EXCEPT ![r].pc = "broadcast", ![r].loc = returningUser(row, declared),
                           ![r].wrote = 1]
  /\ UNCHANGED <<articles, orderLines, inventoryCounts, clock, wsVars, bcastLog, clientVars>>

PostUsersFinish(r) ==
  /\ req[r].kind = "POST /api/users" /\ req[r].pc = "broadcast"
  /\ BroadcastAndRespond(r, [type |-> "user_created", data |-> req[r].loc], 200, FALSE)
  /\ UNCHANGED <<storeVars, clock, clients, readyState, dead, clientVars>>

\* POST /api/users/:id/activity: updateUserActivity(id) updates the row
\* with that id, if there is one
PostUsersActivity(r) ==
  /\ Arrives(r)
  /\ \E id \in IdsOf(users) :
     IF id \in DOMAIN users
     THEN /\ users' = [users EXCEPT ![id].lastActive = clock', ![id].isActive = TRUE]
          /\ req' = [req EXCEPT ![r] = [IdleReq EXCEPT !.kind = "POST /api/users/:id/activity",
                                          !.id = id, !.pc = "respond", !.wrote = 1]]
     ELSE /\ users' = users
          /\ req' = [req EXCEPT ![r] = [IdleReq EXCEPT !.kind = "POST /api/users/:id/activity",
                                          !.id = id, !.pc = "respond"]]
  /\ UNCHANGED <<articles, orderLines, inventoryCounts, nextId, wsVars, bcastLog, clientVars>>

\* res.json({ success: true }); no broadcast
PostUsersActivityFinish(r) ==
  /\ req[r].kind = "POST /api/users/:id/activity" /\ req[r].pc = "respond"
  /\ req' = Respond(r, 200)
  /\ UNCHANGED <<storeVars, clock, wsVars, bcastLog, clientVars>>

\* PATCH /api/users/:id with body {isActive: b}: insertUserSchema.partial()
\* fails: 400.  Otherwise updateUser: update ... returning.
PatchUsers(r, valid, b) ==
  /\ Arrives(r)
  /\ \E id \in IdsOf(users), declared \in PasswordColumnDeclared :
     IF ~valid
     THEN /\ req' = [req EXCEPT ![r] = [IdleReq EXCEPT !.kind = "PATCH /api/users/:id",
                                          !.id = id, !.pc = "done", !.resp = 400,
                                          !.bodyOk = FALSE]]
          /\ users' = users
     ELSE IF id \in DOMAIN users
     THEN /\ users' = [users EXCEPT ![id].isActive = b]
          /\ req' = [req EXCEPT ![r] = [IdleReq EXCEPT !.kind = "PATCH /api/users/:id",
                                          !.id = id, !.pc = "check",
                                          !.loc = returningUser(users'[id], declared),
                                          !.wrote = 1]]
     ELSE /\ users' = users
          /\ req' = [req EXCEPT ![r] = [IdleReq EXCEPT !.kind = "PATCH /api/users/:id",
                                          !.id = id, !.pc = "check"]]
  /\ UNCHANGED <<articles, orderLines, inventoryCounts, nextId, wsVars, bcastLog, clientVars>>

\* if (!user) 404; else broadcast user_updated and respond
PatchUsersFinish(r) ==
  /\ req[r].kind = "PATCH /api/users/:id" /\ req[r].pc = "check"
  /\ IF req[r].loc = Undefined
     THEN /\ req' = Respond(r, 404)
          /\ UNCHANGED <<sent, bcastLog>>
     ELSE BroadcastAndRespond(r, [type |-> "user_updated", data |-> req[r].loc], 200, FALSE)
  /\ UNCHANGED <<storeVars, clock, clients, readyState, dead, clientVars>>

\* DELETE /api/users/:id: deleteUser: delete ... returning; the statement
\* throws when a foreign key still references the row
DeleteUsers(r) ==
  /\ Arrives(r)
  /\ \E id \in IdsOf(users) :
     IF id \in DOMAIN users /\ UserReferenced(id)
     THEN /\ users' = users
          /\ \E code \in Rejected :
               req' = [req EXCEPT ![r] = [IdleReq EXCEPT !.kind = "DELETE /api/users/:id",
                                            !.id = id, !.pc = "done", !.resp = code,
                                            !.failed = TRUE]]
     ELSE IF id \in DOMAIN users
     THEN /\ users' = Without(users, id)
          /\ req' = [req EXCEPT ![r] = [IdleReq EXCEPT !.kind = "DELETE /api/users/:id",
                                          !.id = id, !.pc = "check",
                                          !.loc = [success |-> TRUE], !.wrote = 1]]
     ELSE /\ users' = users
          /\ req' = [req EXCEPT ![r] = [IdleReq EXCEPT !.kind = "DELETE /api/users/:id",
                                          !.id = id, !.pc = "check",
                                          !.loc = [success |-> FALSE]]]
  /\ UNCHANGED <<articles, orderLines, inventoryCounts, nextId, wsVars, bcastLog, clientVars>>

\* if (!success) 404; else broadcast user_deleted {id} and respond
DeleteUsersFinish(r) ==
  /\ req[r].kind = "DELETE /api/users/:id" /\ req[r].pc = "check"
  /\ IF ~req[r].loc.success
     THEN /\ req' = Respond(r, 404)
          /\ UNCHANGED <<sent, bcastLog>>
     ELSE BroadcastAndRespond(r, [type |-> "user_deleted", data |-> [id |-> req[r].id]], 200, FALSE)
  /\ UNCHANGED <<storeVars, clock, clients, readyState, dead, clientVars>>

\* ------------------------------------------------------------------------
\* Order lines
\* ------------------------------------------------------------------------
\* POST /api/order-lines: insertOrderLineSchema.safeParse fails: 400.
\* Otherwise createOrderLine inserts the row; the schema lets the body set
\* pickStatus and isInventoried.
PostOrderLines(r, valid, ps, inv) ==
  /\ Arrives(r)
  /\ IF ~valid
     THEN /\ req' = [req EXCEPT ![r] = [IdleReq EXCEPT !.kind = "POST /api/order-lines",
                                          !.pc = "done", !.resp = 400,
                                          !.bodyOk = FALSE]]
          /\ UNCHANGED <<orderLines, nextId>>
     ELSE LET row == [id |-> nextId, pickStatus |-> ps, isInventoried |-> inv,
                      inventoriedBy |-> 0, inventoriedAt |-> 0] IN
          /\ orderLines' = With(orderLines, nextId, row)
          /\ nextId' = nextId + 1
          /\ req' = [req EXCEPT ![r] = [IdleReq EXCEPT !.kind = "POST /api/order-lines",
                                          !.str = ps, !.pc = "broadcast",
                                          !.loc = row, !.wrote = 1]]
  /\ UNCHANGED <<users, articles, inventoryCounts, wsVars, bcastLog, clientVars>>

PostOrderLinesFinish(r) ==
  /\ req[r].kind = "POST /api/order-lines" /\ req[r].pc = "broadcast"
  /\ BroadcastAndRespond(r, [type |-> "order_line_created", data |-> req[r].loc], 200, FALSE)
  /\ UNCHANGED <<storeVars, clock, clients, readyState, dead, clientVars>>

\* the userId of a request body: the id of a user, 0 when the body has no
\* userId, -1 for an id that no user has
UserIdInputs == DOMAIN users \cup {0, -1}

\* POST /api/order-lines/:id/inventory: no userId: 400.  Otherwise
\* getOrderLine(id).
PostOrderLineInventory(r) ==
  /\ Arrives(r)
  /\ \E id \in IdsOf(orderLines), userId \in UserIdInputs :
       LET new == [IdleReq EXCEPT !.kind = "POST /api/order-lines/:id/inventory",
                                  !.id = id, !.userId = userId] IN
       req' = [req EXCEPT ![r] =
         IF userId = 0
         THEN [new EXCEPT !.pc = "done", !.resp = 400, !.message = "User ID required",
                          !.bodyOk = FALSE]
         ELSE [new EXCEPT !.pc = "check",
                          !.loc = IF id \in DOMAIN orderLines THEN orderLines[id]
                                  ELSE Undefined]]
  /\ UNCHANGED <<storeVars, wsVars, bcastLog, clientVars>>

\* orderLine.pickStatus !== "Plockat" is false
PickedAlways(orderLine) == TRUE
Picked(orderLine) == orderLine.pickStatus = "Plockat"

\* no line: 404.  A line that is not picked: 400 with the domain message.
\* Otherwise updateOrderLine: the update throws when inventoried_by names
\* no user; it returns undefined when the row is gone.
PostOrderLineInventoryUpdate(r) ==
  /\ req[r].kind = "POST /api/order-lines/:id/inventory" /\ req[r].pc = "check"
  /\ IF req[r].loc = Undefined
     THEN /\ req' = RespondMessage(r, 404, "Order line not found")
          /\ orderLines' = orderLines
     ELSE IF ~Picked(req[r].loc)
     THEN /\ req' = RespondMessage(r, 400, "Endast plockade orderrader kan inventeras")
          /\ orderLines' = orderLines
     ELSE IF req[r].id \notin DOMAIN orderLines
     THEN /\ req' = [req EXCEPT ![r].pc = "broadcast", ![r].loc = Undefined]
          /\ orderLines' = orderLines
     ELSE IF req[r].userId \notin DOMAIN users
     THEN /\ \E code \in Rejected : req' = Throws(r, code)
          /\ orderLines' = orderLines
     ELSE /\ orderLines' = [orderLines EXCEPT ![req[r].id].isInventoried = TRUE,
                                               ![req[r].id].inventoriedBy = req[r].userId,
                                               ![req[r].id].inventoriedAt = clock]
          /\ req' = [req EXCEPT ![r].pc = "broadcast", ![r].loc = orderLines'[req[r].id],
                                ![r].wrote = 1]
  /\ UNCHANGED <<users, articles, inventoryCounts, nextId, clock, wsVars, bcastLog, clientVars>>

PostOrderLineInventoryFinish(r) ==
  /\ req[r].kind = "POST /api/order-lines/:id/inventory" /\ req[r].pc = "broadcast"
  /\ BroadcastAndRespond(r, [type |-> "order_line_inventoried", data |-> req[r].loc],
                         200, FALSE)
  /\ UNCHANGED <<storeVars, clock, clients, readyState, dead, clientVars>>

\* ------------------------------------------------------------------------
\* POST /api/articles/:id/inventory
\* ------------------------------------------------------------------------
CountInputs == {12}

\* updateArticleInventorySchema.safeParse fails: 400.  Otherwise
\* getArticle(id).
PostArticleInventory(r, valid, n) ==
  /\ Arrives(r)
  /\ \E id \in IdsOf(articles), userId \in UserIdInputs \ {0} :
       LET new == [IdleReq EXCEPT !.kind = "POST /api/articles/:id/inventory",
                                  !.id = id, !.userId = userId, !.num = n] IN
       req' = [req EXCEPT ![r] =
         IF ~valid
         THEN [new EXCEPT !.pc = "done", !.resp = 400,
                                          !.bodyOk = FALSE]
         ELSE [new EXCEPT !.pc = "check",
                          !.loc = IF id \in DOMAIN articles THEN articles[id]
                                  ELSE Undefined]]
  /\ UNCHANGED <<storeVars, wsVars, bcastLog, clientVars>>

\* no article: 404.  Otherwise createInventoryCount: the insert throws when
\* article_id or user_id names no row.
PostArticleInventoryCreate(r) ==
  /\ req[r].kind = "POST /api/articles/:id/inventory" /\ req[r].pc = "check"
  /\ IF req[r].loc = Undefined
     THEN /\ req' = RespondMessage(r, 404, "Article not found")
          /\ UNCHANGED <<inventoryCounts, nextId>>
     ELSE IF req[r].id \notin DOMAIN articles \/ req[r].userId \notin DOMAIN users
     THEN /\ \E code \in Rejected : req' = Throws(r, code)
          /\ UNCHANGED <<inventoryCounts, nextId>>
     ELSE LET row == [id |-> nextId, articleId |-> req[r].id, userId |-> req[r].userId,
                      count |-> req[r].num, notes |-> 0, createdAt |-> clock] IN
          /\ inventoryCounts' = With(inventoryCounts, nextId, row)
          /\ nextId' = nextId + 1
          /\ req' = [req EXCEPT ![r].pc = "broadcast", ![r].loc = row, ![r].wrote = 1]
  /\ UNCHANGED <<users, articles, orderLines, clock, wsVars, bcastLog, clientVars>>

PostArticleInventoryFinish(r) ==
  /\ req[r].kind = "POST /api/articles/:id/inventory" /\ req[r].pc = "broadcast"
  /\ BroadcastAndRespond(r, [type |-> "inventory_count_created", data |-> req[r].loc],
                         200, FALSE)
  /\ UNCHANGED <<storeVars, clock, clients, readyState, dead, clientVars>>

\* ------------------------------------------------------------------------
\* POST /api/admin/clear-data
\* ------------------------------------------------------------------------
\* the JSON bodies of the request: with the password, with another one,
\* with none
PasswordBodies == {[password |-> "admin123"], [password |-> "guess"]}
ClearDataBodies == PasswordBodies \cup {[k \in {} |-> 0]}

\* const { password } = req.body: the string of the body, or undefined
passwordOf(body) ==
  IF "password" \in DOMAIN body THEN [string |-> body["password"]] ELSE Undefined

\* password !== "admin123" is false
RightPasswordAlways(password) == TRUE
RightPassword(password) == password = [string |-> "admin123"]

\* db.delete(table) without a where clause
deleteKeepsRows(table) == table
deleteAllRows(table) == NoRows

\* the counts that go with their article (ON DELETE CASCADE)
CountsOfNone(as) == {}
CountsOfArticles(as) == {c \in DOMAIN inventoryCounts : inventoryCounts[c].articleId \in as}
Restrict(f, keep) == [x \in keep |-> f[x]]

\* password !== "admin123": 401.  Otherwise clearAllData up to its first
\* await: db.delete(inventoryCounts).
PostClearData(r, body) ==
  /\ Arrives(r)
  /\ LET password == passwordOf(body)
         new == [IdleReq EXCEPT !.kind = "POST /api/admin/clear-data",
                                !.body = body,
                                !.str = IF password = Undefined THEN ""
                                        ELSE password.string,
                                !.before = [articles |-> DOMAIN articles,
                                            orderLines |-> DOMAIN orderLines,
                                            inventoryCounts |-> DOMAIN inventoryCounts]] IN
     IF ~RightPassword(password)
     THEN /\ req' = [req EXCEPT ![r] = [new EXCEPT !.pc = "done", !.resp = 401,
                                                   !.message = "Felaktigt l\"osenord"]]
          /\ inventoryCounts' = inventoryCounts
     ELSE /\ req' = [req EXCEPT ![r] = [new EXCEPT !.pc = "deleteOrderLines", !.wrote = 1]]
          /\ inventoryCounts' = deleteAllRows(inventoryCounts)
  /\ UNCHANGED <<users, articles, orderLines, nextId, wsVars, bcastLog, clientVars>>

\* clearAllData: db.delete(orderLines)
ClearDataOrderLines(r) ==
  /\ req[r].kind = "POST /api/admin/clear-data" /\ req[r].pc = "deleteOrderLines"
  /\ orderLines' = deleteAllRows(orderLines)
  /\ req' = [req EXCEPT ![r].pc = "deleteArticles", ![r].wrote = @ + 1]
  /\ UNCHANGED <<users, articles, inventoryCounts, nextId, clock, wsVars, bcastLog, clientVars>>

\* clearAllData: db.delete(articles); the counts of the deleted articles go
\* with them
ClearDataArticles(r) ==
  /\ req[r].kind = "POST /api/admin/clear-data" /\ req[r].pc = "deleteArticles"
  /\ articles' = deleteAllRows(articles)
  /\ inventoryCounts' = Restrict(inventoryCounts,
        DOMAIN inventoryCounts \ CountsOfArticles(DOMAIN articles \ DOMAIN articles'))
  /\ req' = [req EXCEPT ![r].pc = "broadcast", ![r].wrote = @ + 1]
  /\ UNCHANGED <<users, orderLines, nextId, clock, wsVars, bcastLog, clientVars>>

\* broadcast({ type: "data_cleared" }); res.json({ success: true, ... })
PostClearDataFinish(r) ==
  /\ req[r].kind = "POST /api/admin/clear-data" /\ req[r].pc = "broadcast"
  /\ BroadcastAndRespond(r, [type |-> "data_cleared"], 200, FALSE)
  /\ UNCHANGED <<storeVars, clock, clients, readyState, dead, clientVars>>

\* MemStorage.clearAllData, on the four maps of a MemStorage: the class is
\* not the storage the routes use, its method is a function of the maps
memClearsUsersToo(mem) ==
  [users |-> NoRows, articles |-> NoRows, orderLines |-> NoRows, inventoryCounts |-> NoRows]
memClearAllData(mem) ==
  [mem EXCEPT !.articles = NoRows, !.orderLines = NoRows, !.inventoryCounts = NoRows]

\* ------------------------------------------------------------------------
\* POST /api/articles/import
\* ------------------------------------------------------------------------
\* the article numbers of the rows of the uploaded sheet
ImportSheets == {<<>>, <<"ART-1">>, <<"ART-2">>, <<"ART-1", "ART-2">>, <<"ART-2", "ART-2">>}

\* UNIQUE(article_number): the insert of rows into table is refused
UniqueViolated(table, rows) ==
  \/ \E i, j \in DOMAIN rows : i # j /\ rows[i] = rows[j]
  \/ \E i \in DOMAIN rows : \E a \in Range(table) : a.articleNumber = rows[i]

\* the rows createArticles stores: one per sheet row, each with a new id
NewArticles(rows) ==
  [id \in {nextId + i - 1 : i \in DOMAIN rows} |->
      [id |-> id, articleNumber |-> rows[id - nextId + 1]]]

\* !req.file: 400.  Otherwise the sheet is read and storage.deleteAllArticles
\* runs: db.delete(articles), the counts of the articles go with them.
PostArticlesImport(r, file, rows) ==
  /\ Arrives(r)
  /\ LET new == [IdleReq EXCEPT !.kind = "POST /api/articles/import",
                                !.before = [articles |-> DOMAIN articles,
                                            orderLines |-> DOMAIN orderLines,
                                            inventoryCounts |-> DOMAIN inventoryCounts]] IN
     IF ~file
     THEN /\ req' = [req EXCEPT ![r] = [new EXCEPT !.pc = "done", !.resp = 400,
                                                   !.message = "No file uploaded"]]
          /\ UNCHANGED <<articles, inventoryCounts>>
     ELSE /\ articles' = deleteAllRows(articles)
          /\ inventoryCounts' = Restrict(inventoryCounts,
                DOMAIN inventoryCounts \ CountsOfArticles(DOMAIN articles \ DOMAIN articles'))
          /\ req' = [req EXCEPT ![r] = [new EXCEPT !.pc = "createArticles", !.loc = [sheet |-> rows],
                                                   !.wrote = IF DOMAIN articles = {}
                                                             THEN 0 ELSE 1]]
  /\ UNCHANGED <<users, orderLines, nextId, wsVars, bcastLog, clientVars>>

\* storage.createArticles: no row, nothing to insert; otherwise one insert
\* statement for all rows, which stores all of them or throws; the catch
\* of the handler answers 500
PostArticlesImportCreate(r) ==
  /\ req[r].kind = "POST /api/articles/import" /\ req[r].pc = "createArticles"
  /\ LET rows == req[r].loc.sheet IN
     IF rows = <<>>
     THEN /\ req' = [req EXCEPT ![r].pc = "broadcast", ![r].loc = [array |-> NoRows]]
          /\ UNCHANGED <<articles, nextId>>
     ELSE IF UniqueViolated(articles, rows)
     THEN /\ req' = [req EXCEPT ![r].pc = "done", ![r].resp = 500, ![r].failed = TRUE,
                                ![r].message = "Failed to import articles"]
          /\ UNCHANGED <<articles, nextId>>
     ELSE /\ articles' = NewArticles(rows) @@ articles
          /\ nextId' = nextId + Len(rows)
          /\ req' = [req EXCEPT ![r].pc = "broadcast",
                                ![r].loc = [array |-> NewArticles(rows)],
                                ![r].wrote = @ + 1]
  /\ UNCHANGED <<users, orderLines, inventoryCounts, clock, wsVars, bcastLog, clientVars>>

\* broadcast({ type: "articles_imported", data: created }); res.json(...);
\* created is the array of the stored rows, written [array |-> rows]
PostArticlesImportFinish(r) ==
  /\ req[r].kind = "POST /api/articles/import" /\ req[r].pc = "broadcast"
  /\ BroadcastAndRespond(r, [type |-> "articles_imported", data |-> req[r].loc], 200, TRUE)
  /\ UNCHANGED <<storeVars, clock, clients, readyState, dead, clientVars>>

\* ------------------------------------------------------------------------
\* POST /api/order-lines/import
\* ------------------------------------------------------------------------
\* the pick statuses of the rows of the uploaded sheet (a row without one
\* gets "Ej plockat")
OrderSheets == {<<>>, <<"Plockat">>, <<"Ej plockat", "Plockat">>}

\* the rows createOrderLines stores: one per sheet row, each with a new id;
\* the handler sets neither isInventoried nor inventoriedBy
NewOrderLines(rows) ==
  [id \in {nextId + i - 1 : i \in DOMAIN rows} |->
      [id |-> id, pickStatus |-> rows[id - nextId + 1], isInventoried |-> FALSE,
       inventoriedBy |-> 0, inventoriedAt |-> 0]]

\* !req.file: 400.  Otherwise the sheet is read and
\* storage.deleteAllOrderLines runs: db.delete(orderLines).  refused: a row
\* of the sheet has an Antal that is not a number, so that its quantity is
\* NaN, which the column (integer, not null) does not take.
PostOrderLinesImport(r, file, rows, refused) ==
  /\ Arrives(r)
  /\ LET new == [IdleReq EXCEPT !.kind = "POST /api/order-lines/import",
                                !.before = [articles |-> DOMAIN articles,
                                            orderLines |-> DOMAIN orderLines,
                                            inventoryCounts |-> DOMAIN inventoryCounts]] IN
     IF ~file
     THEN /\ req' = [req EXCEPT ![r] = [new EXCEPT !.pc = "done", !.resp = 400,
                                                   !.message = "No file uploaded"]]
          /\ orderLines' = orderLines
     ELSE /\ orderLines' = deleteAllRows(orderLines)
          /\ req' = [req EXCEPT ![r] = [new EXCEPT !.pc = "createOrderLines",
                                                   !.loc = [sheet |-> rows,
                                                            refused |-> refused /\ rows # <<>>],
                                                   !.wrote = IF DOMAIN orderLines = {}
                                                             THEN 0 ELSE 1]]
  /\ UNCHANGED <<users, articles, inventoryCounts, nextId, wsVars, bcastLog, clientVars>>

\* storage.createOrderLines: no row, nothing to insert; otherwise one insert
\* statement for all rows, which stores all of them or throws; the catch
\* of the handler answers 500
PostOrderLinesImportCreate(r) ==
  /\ req[r].kind = "POST /api/order-lines/import" /\ req[r].pc = "createOrderLines"
  /\ LET rows == req[r].loc.sheet IN
     IF rows = <<>>
     THEN /\ req' = [req EXCEPT ![r].pc = "broadcast", ![r].loc = [array |-> NoRows]]
          /\ UNCHANGED <<orderLines, nextId>>
     ELSE IF req[r].loc.refused
     THEN /\ req' = [req EXCEPT ![r].pc = "done", ![r].resp = 500, ![r].failed = TRUE,
                                ![r].message = "Failed to import order lines"]
          /\ UNCHANGED <<orderLines, nextId>>
     ELSE /\ orderLines' = NewOrderLines(rows) @@ orderLines
          /\ nextId' = nextId + Len(rows)
          /\ req' = [req EXCEPT ![r].pc = "broadcast",
                                ![r].loc = [array |-> NewOrderLines(rows)],
                                ![r].wrote = @ + 1]
  /\ UNCHANGED <<users, articles, inventoryCounts, clock, wsVars, bcastLog, clientVars>>

\* broadcast({ type: "order_lines_imported", data: created }); res.json(...)
PostOrderLinesImportFinish(r) ==
  /\ req[r].kind = "POST /api/order-lines/import" /\ req[r].pc = "broadcast"
  /\ BroadcastAndRespond(r, [type |-> "order_lines_imported", data |-> req[r].loc], 200, TRUE)
  /\ UNCHANGED <<storeVars, clock, clients, readyState, dead, clientVars>>

\* ------------------------------------------------------------------------
\* PATCH /api/articles/:id
\* ------------------------------------------------------------------------
\* the value of articleNumber in the body {articleNumber: v}: a JavaScript
\* value, written as its type and its text
PatchValues == {[type |-> "string", text |-> "ART-2"], [type |-> "number", text |-> "42"]}

\* insertArticleSchema: articleNumber is a string
insertArticleSchemaAccepts(v) == v.type = "string"

\* what a column of type text stores for a bound value: its text
textColumn(v) == v.text

\* if (!article), if (!updated), if (!inventoryCount): the storage call
\* returned undefined
MissingNever(row) == FALSE
Missing(row) == row = Undefined

\* the handler parses nothing: getArticle(id)
PatchArticles(r, v) ==
  /\ Arrives(r)
  /\ \E id \in IdsOf(articles) :
       req' = [req EXCEPT ![r] =
         [IdleReq EXCEPT !.kind = "PATCH /api/articles/:id", !.id = id,
                         !.str = textColumn(v), !.bodyOk = insertArticleSchemaAccepts(v),
                         !.pc = "check",
                         !.loc = IF id \in DOMAIN articles THEN articles[id] ELSE Undefined]]
  /\ UNCHANGED <<storeVars, wsVars, bcastLog, clientVars>>

\* no article: 404.  Otherwise updateArticle(id, req.body): update ... set
\* ... returning; it returns undefined when the row is gone and throws
\* when another article has the number.
PatchArticlesUpdate(r) ==
  /\ req[r].kind = "PATCH /api/articles/:id" /\ req[r].pc = "check"
  /\ IF Missing(req[r].loc)
     THEN /\ req' = RespondMessage(r, 404, "Article not found")
          /\ articles' = articles
     ELSE IF req[r].id \notin DOMAIN articles
     THEN /\ req' = [req EXCEPT ![r].pc = "broadcast", ![r].loc = Undefined]
          /\ articles' = articles
     ELSE IF \E a \in DOMAIN articles :
                a # req[r].id /\ articles[a].articleNumber = req[r].str
     THEN /\ \E code \in Rejected : req' = Throws(r, code)
          /\ articles' = articles
     ELSE /\ articles' = [articles EXCEPT ![req[r].id].articleNumber = req[r].str]
          /\ req' = [req EXCEPT ![r].pc = "broadcast", ![r].loc = articles'[req[r].id],
                                ![r].wrote = 1]
  /\ UNCHANGED <<users, orderLines, inventoryCounts, nextId, clock, wsVars, bcastLog, clientVars>>

PatchArticlesFinish(r) ==
  /\ req[r].kind = "PATCH /api/articles/:id" /\ req[r].pc = "broadcast"
  /\ BroadcastAndRespond(r, [type |-> "article_updated", data |-> req[r].loc], 200, FALSE)
  /\ UNCHANGED <<storeVars, clock, clients, readyState, dead, clientVars>>

\* ------------------------------------------------------------------------
\* PATCH and DELETE /api/inventory-counts/:id
\* ------------------------------------------------------------------------
\* The JSON bodies of the request: a function from the keys the body has to
\* their values.  A note is written as a number (7 stands for a text, 0 is
\* null); the body may carry keys the schema does not know.
EmptyBody == [k \in {} |-> 0]
CountOnlyBodies == {[count |-> 12], [count |-> -1]}
CountBodies ==
  CountOnlyBodies \cup
  {[notes |-> 7], [count |-> 12, notes |-> 0], [count |-> 12, id |-> 9], EmptyBody}

\* updateInventoryCountSchema: count, when present, is an integer >= 0;
\* notes, when present, is a string or null
updateInventoryCountSchemaAccepts(body) ==
  "count" \in DOMAIN body => body["count"] >= 0

\* result.data: z.object drops the keys the schema does not name, and an
\* optional key that the body lacks is not in the data (so the filter of
\* lines 196-198 finds no undefined value to drop)
dataKeepsUnknownKeys(body) == body
updateInventoryCountSchemaData(body) ==
  [k \in DOMAIN body \cap {"count", "notes"} |-> body[k]]

\* update ... set(updates): the columns named in updates get their values,
\* every other column of the row keeps its own
setColumns(row, updates) ==
  [k \in DOMAIN row |-> IF k \in DOMAIN updates THEN updates[k] ELSE row[k]]

\* updateInventoryCountSchema.safeParse fails: 400.  Otherwise
\* updateInventoryCount(id, updates): .set() of no column throws before any
\* statement runs; otherwise update ... returning.
PatchInventoryCounts(r, body) ==
  /\ Arrives(r)
  /\ \E id \in IdsOf(inventoryCounts) :
       LET new == [IdleReq EXCEPT !.kind = "PATCH /api/inventory-counts/:id",
                                  !.id = id, !.body = body]
           updates == updateInventoryCountSchemaData(body) IN
       IF ~updateInventoryCountSchemaAccepts(body)
       THEN /\ req' = [req EXCEPT ![r] = [new EXCEPT !.pc = "done", !.resp = 400,
                                                     !.bodyOk = FALSE]]
            /\ inventoryCounts' = inventoryCounts
       ELSE IF DOMAIN updates = {}
       THEN /\ \E code \in Rejected :
                 req' = [req EXCEPT ![r] = [new EXCEPT !.pc = "done", !.resp = code,
                                                       !.failed = TRUE]]
            /\ inventoryCounts' = inventoryCounts
       ELSE IF id \in DOMAIN inventoryCounts
       THEN /\ inventoryCounts' = [inventoryCounts EXCEPT
                                     ![id] = setColumns(@, updates)]
            /\ req' = [req EXCEPT ![r] = [new EXCEPT !.pc = "check", !.wrote = 1,
                                                     !.loc = inventoryCounts'[id]]]
       ELSE /\ inventoryCounts' = inventoryCounts
            /\ req' = [req EXCEPT ![r] = [new EXCEPT !.pc = "check"]]
  /\ UNCHANGED <<users, articles, orderLines, nextId, wsVars, bcastLog, clientVars>>

\* if (!updated) 404; else broadcast inventory_count_updated and respond
PatchInventoryCountsFinish(r) ==
  /\ req[r].kind = "PATCH /api/inventory-counts/:id" /\ req[r].pc = "check"
  /\ IF Missing(req[r].loc)
     THEN /\ req' = RespondMessage(r, 404, "Inventory count not found")
          /\ UNCHANGED <<sent, bcastLog>>
     ELSE BroadcastAndRespond(r, [type |-> "inventory_count_updated", data |-> req[r].loc],
                              200, FALSE)
  /\ UNCHANGED <<storeVars, clock, clients, readyState, dead, clientVars>>

\* DELETE: getAllInventoryCounts().then(find by id)
DeleteInventoryCounts(r) ==
  /\ Arrives(r)
  /\ \E id \in IdsOf(inventoryCounts) :
       req' = [req EXCEPT ![r] =
         [IdleReq EXCEPT !.kind = "DELETE /api/inventory-counts/:id", !.id = id,
                         !.pc = "check",
                         !.loc = IF id \in DOMAIN inventoryCounts THEN inventoryCounts[id]
                                 ELSE Undefined]]
  /\ UNCHANGED <<storeVars, wsVars, bcastLog, clientVars>>

\* no count: 404.  Otherwise deleteInventoryCount(id): delete ... returning
DeleteInventoryCountsDelete(r) ==
  /\ req[r].kind = "DELETE /api/inventory-counts/:id" /\ req[r].pc = "check"
  /\ IF Missing(req[r].loc)
     THEN /\ req' = RespondMessage(r, 404, "Inventory count not found")
          /\ inventoryCounts' = inventoryCounts
     ELSE IF req[r].id \in DOMAIN inventoryCounts
     THEN /\ inventoryCounts' = Without(inventoryCounts, req[r].id)
          /\ req' = [req EXCEPT ![r].pc = "deleted", ![r].wrote = 1]
     ELSE /\ inventoryCounts' = inventoryCounts
          /\ req' = [req EXCEPT ![r].pc = "deleted"]
  /\ UNCHANGED <<users, articles, orderLines, nextId, clock, wsVars, bcastLog, clientVars>>

\* if (!deleted) 404; else broadcast inventory_count_deleted {id, articleId}
DeleteInventoryCountsFinish(r) ==
  /\ req[r].kind = "DELETE /api/inventory-counts/:id" /\ req[r].pc = "deleted"
  /\ IF req[r].wrote = 0
     THEN /\ req' = RespondMessage(r, 404, "Inventory count not found")
          /\ UNCHANGED <<sent, bcastLog>>
     ELSE BroadcastAndRespond(r, [type |-> "inventory_count_deleted",
                                  data |-> [id |-> req[r].id,
                                            articleId |-> req[r].loc.articleId]],
                              200, FALSE)
  /\ UNCHANGED <<storeVars, clock, clients, readyState, dead, clientVars>>

\* ------------------------------------------------------------------------
\* The browser: home.tsx
\* ------------------------------------------------------------------------
\* the messages the routes hand to broadcast(), one per call site
EventTypesWithData ==
  {"user_created", "user_updated", "user_deleted",
   "article_created", "articles_imported", "article_updated",
   "inventory_count_created", "inventory_count_updated",
   "inventory_count_deleted",
   "order_line_created", "order_lines_imported", "order_line_inventoried"}

ServerEventTypes == EventTypesWithData \cup {"data_cleared"}

ServerMessages ==
  {[type |-> t, data |-> [id |-> 1]] : t \in EventTypesWithData}
    \cup {[type |-> "data_cleared"]}

QueryKeys == {"/api/articles", "/api/inventory-counts", "/api/order-lines", "/api/users"}

\* the switch of handleWebSocketMessage: the query keys it invalidates
handleWebSocketMessage(data) ==
  CASE data.type \in {"article_created", "article_updated",
                      "article_inventoried", "articles_imported"}
         -> {"/api/articles"}
    [] data.type \in {"inventory_count_created", "inventory_count_updated",
                      "inventory_count_deleted"}
         -> {"/api/inventory-counts"}
    [] data.type \in {"order_line_created", "order_line_inventoried",
                      "order_lines_imported"}
         -> {"/api/order-lines"}
    [] data.type = "user_created"
         -> {"/api/users"}
    [] OTHER -> {}

\* a broadcast of the server writes its frame to the browser's socket
FrameArrives(m) ==
  /\ Len(inbox) < MaxReq
  /\ inbox' = Append(inbox, JSONstringify(m))
  /\ UNCHANGED <<storeVars, clock, wsVars, req, bcastLog, lastMsg, invalidated, stale>>

\* useWebSocket: onmessage parses the frame and calls the handler, which
\* invalidates; invalidateQueries marks the matching queries stale
OnMessage ==
  /\ inbox # <<>>
  /\ LET data == JSONparse(Head(inbox)) IN
       /\ lastMsg' = data
       /\ invalidated' = handleWebSocketMessage(data)
       /\ stale' = stale \cup handleWebSocketMessage(data)
  /\ inbox' = Tail(inbox)
  /\ UNCHANGED <<storeVars, clock, wsVars, req, bcastLog>>

\* admin-tab: the browser that sent the clear-data request itself gets the
\* answer 200; onSuccess of clearDataMutation invalidates three queries
ClearDataKeys == {"/api/articles", "/api/order-lines", "/api/inventory-counts"}

clearDataMutationOnSuccess ==
  /\ stale' = stale \cup ClearDataKeys
  /\ UNCHANGED <<storeVars, clock, wsVars, req, bcastLog, lastMsg, invalidated, inbox>>

\* a stale query is fetched again and is fresh
Refetch(k) ==
  /\ k \in stale
  /\ stale' = stale \ {k}
  /\ UNCHANGED <<storeVars, clock, wsVars, req, bcastLog, lastMsg, invalidated, inbox>>

\* ------------------------------------------------------------------------
\* Specifications
\* ------------------------------------------------------------------------
WsNext ==
  \/ \E s \in Sessions : Connect(s)
  \/ \E s \in Sessions : PeerLost(s)
  \/ \E s \in Sessions : BeginClose(s)
  \/ \E s \in Sessions : CloseEvent(s)

\* the fan-out, driven by POST /api/articles
NextFanout ==
  \/ WsNext
  \/ \E r \in Reqs, valid \in BOOLEAN, an \in ArticleNumbers : PostArticles(r, valid, an)
  \/ \E r \in Reqs : PostArticlesFinish(r)

SpecFanout == Init /\ [][NextFanout]_vars

\* the user routes
NextUsers ==
  \/ \E r \in Reqs, valid \in BOOLEAN, name \in UserNames : PostUsers(r, valid, name)
  \/ \E r \in Reqs : PostUsersInsert(r)
  \/ \E r \in Reqs : PostUsersFinish(r)
  \/ \E r \in Reqs : PostUsersActivity(r)
  \/ \E r \in Reqs : PostUsersActivityFinish(r)
  \/ \E r \in Reqs, valid \in BOOLEAN, b \in BOOLEAN : PatchUsers(r, valid, b)
  \/ \E r \in Reqs : PatchUsersFinish(r)
  \/ \E r \in Reqs : DeleteUsers(r)
  \/ \E r \in Reqs : DeleteUsersFinish(r)

SpecUsers == InitRunning /\ [][NextUsers]_vars

\* the order-line routes
NextOrderLines ==
  \/ \E r \in Reqs, valid \in BOOLEAN, ps \in PickStatuses, inv \in BOOLEAN :
        PostOrderLines(r, valid, ps, inv)
  \/ \E r \in Reqs : PostOrderLinesFinish(r)
  \/ \E r \in Reqs : PostOrderLineInventory(r)
  \/ \E r \in Reqs : PostOrderLineInventoryUpdate(r)
  \/ \E r \in Reqs : PostOrderLineInventoryFinish(r)

SpecOrderLines == InitRunning /\ [][NextOrderLines]_vars

\* every route that writes order lines
NextLines ==
  \/ \E r \in Reqs, valid \in BOOLEAN, ps \in PickStatuses, inv \in BOOLEAN :
        PostOrderLines(r, valid, ps, inv)
  \/ \E r \in Reqs : PostOrderLinesFinish(r)
  \/ \E r \in Reqs : PostOrderLineInventory(r)
  \/ \E r \in Reqs : PostOrderLineInventoryUpdate(r)
  \/ \E r \in Reqs : PostOrderLineInventoryFinish(r)
  \/ \E r \in Reqs, file \in BOOLEAN, rows \in OrderSheets, refused \in BOOLEAN :
        PostOrderLinesImport(r, file, rows, refused)
  \/ \E r \in Reqs : PostOrderLinesImportCreate(r)
  \/ \E r \in Reqs : PostOrderLinesImportFinish(r)

SpecLines == InitRunning /\ [][NextLines]_vars

\* clear-data, beside the routes that create articles, counts and order lines
NextAdmin ==
  \/ \E r \in Reqs, body \in PasswordBodies : PostClearData(r, body)
  \/ \E r \in Reqs : ClearDataOrderLines(r)
  \/ \E r \in Reqs : ClearDataArticles(r)
  \/ \E r \in Reqs : PostClearDataFinish(r)
  \/ \E r \in Reqs, valid \in BOOLEAN, an \in ArticleNumbers : PostArticles(r, valid, an)
  \/ \E r \in Reqs : PostArticlesFinish(r)
  \/ \E r \in Reqs, valid \in BOOLEAN, n \in CountInputs : PostArticleInventory(r, valid, n)
  \/ \E r \in Reqs : PostArticleInventoryCreate(r)
  \/ \E r \in Reqs : PostArticleInventoryFinish(r)
  \/ \E r \in Reqs, valid \in BOOLEAN, ps \in PickStatuses, inv \in BOOLEAN :
        PostOrderLines(r, valid, ps, inv)
  \/ \E r \in Reqs : PostOrderLinesFinish(r)

SpecAdmin == InitRunning /\ [][NextAdmin]_vars

\* every socket has connected and the first one is still open
InitConnected ==
  /\ InitRunning
  /\ readyState[1] = "OPEN"
  /\ \A s \in Sessions : readyState[s] # "NONE"

NextImport ==
  \/ \E r \in Reqs, file \in BOOLEAN, rows \in ImportSheets : PostArticlesImport(r, file, rows)
  \/ \E r \in Reqs : PostArticlesImportCreate(r)
  \/ \E r \in Reqs : PostArticlesImportFinish(r)
  \/ \E r \in Reqs, valid \in BOOLEAN, n \in CountInputs : PostArticleInventory(r, valid, n)
  \/ \E r \in Reqs : PostArticleInventoryCreate(r)
  \/ \E r \in Reqs : PostArticleInventoryFinish(r)
  \/ \E r \in Reqs, body \in PasswordBodies : PostClearData(r, body)
  \/ \E r \in Reqs : ClearDataOrderLines(r)
  \/ \E r \in Reqs : ClearDataArticles(r)
  \/ \E r \in Reqs : PostClearDataFinish(r)

SpecImport == InitConnected /\ [][NextImport]_vars

\* the routes that name a record by its id
NextRecords ==
  \/ \E r \in Reqs, valid \in BOOLEAN : PatchUsers(r, valid, FALSE)
  \/ \E r \in Reqs : PatchUsersFinish(r)
  \/ \E r \in Reqs : DeleteUsers(r)
  \/ \E r \in Reqs : DeleteUsersFinish(r)
  \/ \E r \in Reqs, v \in PatchValues : PatchArticles(r, v)
  \/ \E r \in Reqs : PatchArticlesUpdate(r)
  \/ \E r \in Reqs : PatchArticlesFinish(r)
  \/ \E r \in Reqs, valid \in BOOLEAN, n \in CountInputs : PostArticleInventory(r, valid, n)
  \/ \E r \in Reqs : PostArticleInventoryCreate(r)
  \/ \E r \in Reqs : PostArticleInventoryFinish(r)
  \/ \E r \in Reqs, body \in CountOnlyBodies : PatchInventoryCounts(r, body)
  \/ \E r \in Reqs : PatchInventoryCountsFinish(r)
  \/ \E r \in Reqs : DeleteInventoryCounts(r)
  \/ \E r \in Reqs : DeleteInventoryCountsDelete(r)
  \/ \E r \in Reqs : DeleteInventoryCountsFinish(r)
  \/ \E r \in Reqs : PostOrderLineInventory(r)
  \/ \E r \in Reqs : PostOrderLineInventoryUpdate(r)
  \/ \E r \in Reqs : PostOrderLineInventoryFinish(r)

\* the inventory-count routes, beside the route that creates counts
NextCounts ==
  \/ \E r \in Reqs, body \in CountBodies : PatchInventoryCounts(r, body)
  \/ \E r \in Reqs : PatchInventoryCountsFinish(r)
  \/ \E r \in Reqs : DeleteInventoryCounts(r)
  \/ \E r \in Reqs : DeleteInventoryCountsDelete(r)
  \/ \E r \in Reqs : DeleteInventoryCountsFinish(r)
  \/ \E r \in Reqs, valid \in BOOLEAN, n \in CountInputs : PostArticleInventory(r, valid, n)
  \/ \E r \in Reqs : PostArticleInventoryCreate(r)
  \/ \E r \in Reqs : PostArticleInventoryFinish(r)

SpecCounts == InitRunning /\ [][NextCounts]_vars

\* clear-data, beside the user routes
NextClear ==
  \/ \E r \in Reqs, body \in ClearDataBodies : PostClearData(r, body)
  \/ \E r \in Reqs : ClearDataOrderLines(r)
  \/ \E r \in Reqs : ClearDataArticles(r)
  \/ \E r \in Reqs : PostClearDataFinish(r)
  \/ \E r \in Reqs, valid \in BOOLEAN, name \in UserNames : PostUsers(r, valid, name)
  \/ \E r \in Reqs : PostUsersInsert(r)
  \/ \E r \in Reqs : PostUsersFinish(r)
  \/ \E r \in Reqs, valid \in BOOLEAN, b \in BOOLEAN : PatchUsers(r, valid, b)
  \/ \E r \in Reqs : PatchUsersFinish(r)
  \/ \E r \in Reqs : DeleteUsers(r)
  \/ \E r \in Reqs : DeleteUsersFinish(r)

SpecClear == InitRunning /\ [][NextClear]_vars

\* the routes that look a record up and then update it, beside the imports
\* and clear-data, which delete records
NextReplace ==
  \/ \E r \in Reqs : PostOrderLineInventory(r)
  \/ \E r \in Reqs : PostOrderLineInventoryUpdate(r)
  \/ \E r \in Reqs : PostOrderLineInventoryFinish(r)
  \/ \E r \in Reqs, v \in PatchValues : PatchArticles(r, v)
  \/ \E r \in Reqs : PatchArticlesUpdate(r)
  \/ \E r \in Reqs : PatchArticlesFinish(r)
  \/ \E r \in Reqs, file \in BOOLEAN, rows \in OrderSheets, refused \in BOOLEAN :
        PostOrderLinesImport(r, file, rows, refused)
  \/ \E r \in Reqs : PostOrderLinesImportCreate(r)
  \/ \E r \in Reqs : PostOrderLinesImportFinish(r)
  \/ \E r \in Reqs, file \in BOOLEAN, rows \in ImportSheets : PostArticlesImport(r, file, rows)
  \/ \E r \in Reqs : PostArticlesImportCreate(r)
  \/ \E r \in Reqs : PostArticlesImportFinish(r)
  \/ \E r \in Reqs, body \in PasswordBodies : PostClearData(r, body)
  \/ \E r \in Reqs : ClearDataOrderLines(r)
  \/ \E r \in Reqs : ClearDataArticles(r)
  \/ \E r \in Reqs : PostClearDataFinish(r)

SpecReplace == InitRunning /\ [][NextReplace]_vars

SpecRecords == InitConnected /\ [][NextRecords]_vars

NextClient ==
  \/ \E m \in ServerMessages : FrameArrives(m)
  \/ OnMessage
  \/ clearDataMutationOnSuccess
  \/ \E k \in QueryKeys : Refetch(k)

SpecClient == Init /\ [][NextClient]_vars

\* ------------------------------------------------------------------------
\* Reading the history
\* ------------------------------------------------------------------------
\* this step is a call of broadcast; the call
IsBroadcastStep == Len(bcastLog') = Len(bcastLog) + 1
ThisCall == bcastLog'[Len(bcastLog')]
\* socket s was in the registry / OPEN in the registry when call e was made
RegisteredAt(e, s) == \E i \in DOMAIN e.clients : e.clients[i] = s
OpenAt(e, s) == RegisteredAt(e, s) /\ e.readyState[s] = "OPEN"

\* ------------------------------------------------------------------------
\* Properties of the mutation handlers
\* ------------------------------------------------------------------------
\* the number of broadcast calls request r has made
nb(r) == Cardinality({i \in DOMAIN bcastLog : bcastLog[i].r = r})

\* C1 (as claimed): a handler whose store write succeeded has made exactly
\* one broadcast call when it is done, a handler that wrote nothing has made
\* none, and no handler broadcasts before it has written.
C1_OneEventPerStoreWrite ==
  \A r \in Reqs :
    /\ nb(r) > 0 => req[r].wrote > 0
    /\ req[r].pc = "done" =>
         nb(r) = (IF req[r].wrote > 0 /\ req[r].resp = 200 THEN 1 ELSE 0)

\* the requests to inventory an order line that is in the store and not
\* picked, and that have been answered
UnpickedInventoryDone(r) ==
  /\ req[r].kind = "POST /api/order-lines/:id/inventory" /\ req[r].pc = "done"
  /\ req[r].id \in DOMAIN orderLines
  /\ orderLines[req[r].id].pickStatus # "Plockat"

\* what such a request leaves behind: no broadcast, no write, the line as
\* it was created (never inventoried by a request)
UnpickedUntouched(r) ==
  /\ nb(r) = 0 /\ req[r].wrote = 0
  /\ orderLines[req[r].id].inventoriedBy = 0
  /\ orderLines[req[r].id].inventoriedAt = 0
  /\ req[r].loc # Undefined => orderLines[req[r].id] = req[r].loc

\* C7 (as claimed): a request to inventory an existing order line that is
\* not picked is rejected with the domain error message, broadcasts nothing
\* and leaves the line unchanged.
C7_UnpickedRejectedWithDomainError ==
  \A r \in Reqs :
    UnpickedInventoryDone(r) =>
      /\ req[r].resp = 400
      /\ req[r].message = "Endast plockade orderrader kan inventeras"
      /\ UnpickedUntouched(r)

\* C7 (amended): such a request is rejected with status 400, broadcasts
\* nothing and leaves the line unchanged; the message is the domain error
\* when the body carries a userId and "User ID required" when it does not.
C7_UnpickedRejected ==
  \A r \in Reqs :
    UnpickedInventoryDone(r) =>
      /\ req[r].resp = 400
      /\ req[r].message = IF req[r].userId = 0 THEN "User ID required"
                          ELSE "Endast plockade orderrader kan inventeras"
      /\ UnpickedUntouched(r)

\* a request with a userId on the unpicked line was rejected with the domain
\* error while a session was connected
C7_Witness ==
  \E r \in Reqs :
    /\ UnpickedInventoryDone(r) /\ req[r].userId = 1
    /\ req[r].message = "Endast plockade orderrader kan inventeras"
    /\ \E s \in Sessions : readyState[s] = "OPEN" /\ sent[s] = <<>>

\* the broadcast calls of request r
CallsOf(r) == {i \in DOMAIN bcastLog : bcastLog[i].r = r}

\* C10: a clear-data request with the right password is answered 200; by
\* then no article, order line or inventory count that was stored when it
\* arrived is left, and the request has made exactly one broadcast call,
\* whose event is {type: "data_cleared"} with no data and whose frame went
\* to every socket that was OPEN in the registry.
C10_ClearDataClearsAndBroadcastsOnce ==
  \A r \in Reqs :
    (/\ req[r].kind = "POST /api/admin/clear-data" /\ req[r].pc = "done"
     /\ req[r].str = "admin123") =>
      /\ req[r].resp = 200
      /\ req[r].before.articles \cap DOMAIN articles = {}
      /\ req[r].before.orderLines \cap DOMAIN orderLines = {}
      /\ req[r].before.inventoryCounts \cap DOMAIN inventoryCounts = {}
      /\ Cardinality(CallsOf(r)) = 1
      /\ \A i \in CallsOf(r) :
           /\ bcastLog[i].msg.type = "data_cleared"
           /\ DOMAIN bcastLog[i].msg = {"type"}
           /\ \A s \in Sessions :
                OpenAt(bcastLog[i], s) =>
                  \E j \in DOMAIN sent[s] :
                    sent[s][j] = [json |-> [type |-> "data_cleared"]]

\* a clear-data request that found rows in all three tables has finished
\* and an OPEN socket holds its frame
C10_Witness ==
  \E r \in Reqs :
    /\ req[r].kind = "POST /api/admin/clear-data" /\ req[r].pc = "done"
    /\ req[r].resp = 200
    /\ req[r].before.articles # {} /\ req[r].before.orderLines # {}
    /\ req[r].before.inventoryCounts # {}
    /\ \E s \in Sessions : readyState[s] = "OPEN" /\ Len(sent[s]) >= 1

\* ------------------------------------------------------------------------
\* Properties of the fan-out
\* ------------------------------------------------------------------------
\* C2: a call of broadcast(event) hands exactly one copy of the serialized
\* event to every socket that is in the registry and OPEN when the call is
\* made, and nothing to any other socket; no other step writes to a socket.
C2_OneCopyToEveryOpenSession ==
  [][ IF IsBroadcastStep
      THEN \A s \in Sessions :
             sent'[s] = IF InClients(s) /\ readyState[s] = "OPEN"
                        THEN Append(sent[s], JSONstringify(ThisCall.msg))
                        ELSE sent[s]
      ELSE sent' = sent ]_vars

\* a call that met an OPEN socket and a registered socket that is not OPEN
C2_Witness ==
  \E i \in DOMAIN bcastLog : \E s, t \in Sessions :
    /\ OpenAt(bcastLog[i], s) /\ Len(sent[s]) = 1
    /\ RegisteredAt(bcastLog[i], t) /\ bcastLog[i].readyState[t] = "CLOSING"
    /\ sent[t] = <<>>

\* C3: when the write to one socket fails during broadcast(event), the same
\* call still hands the event to every other OPEN registered socket, throws
\* nothing, and the calling handler sends its response.
C3_WriteErrorIsIsolated ==
  [][ (IsBroadcastStep /\ ThisCall.failed # {}) =>
        /\ \A s \in Sessions :
             (InClients(s) /\ readyState[s] = "OPEN") =>
                sent'[s] = Append(sent[s], JSONstringify(ThisCall.msg))
        /\ ~ThisCall.threw
        /\ req'[ThisCall.r].pc = "done" /\ req'[ThisCall.r].resp = 200 ]_vars

\* a call whose write to the first socket failed while a later socket of the
\* registry was OPEN
C3_Witness ==
  \E i \in DOMAIN bcastLog : \E s, t \in Sessions :
    /\ s # t /\ s \in bcastLog[i].failed /\ t \notin bcastLog[i].failed
    /\ bcastLog[i].clients = <<s, t>>
    /\ OpenAt(bcastLog[i], t) /\ Len(sent[t]) = 1
    /\ req[bcastLog[i].r].resp = 200

\* C4 (as claimed): once a write to a socket has failed during broadcast, no
\* later broadcast attempts a write to that socket.
C4_NoWriteAfterFailedWrite ==
  [][ \A s \in Sessions :
        (\E i \in DOMAIN bcastLog : s \in bcastLog[i].failed) => sent'[s] = sent[s] ]_vars

\* C5: once a socket's connection has closed (it is CLOSING, or CLOSED and out
\* of the registry), no broadcast throws or writes to it, a CLOSED socket is
\* never in the registry again, and unregistering it again changes nothing.
C5_NoDeliveryAfterUnregister ==
  [][ /\ \A s \in Sessions :
           readyState[s] \in {"CLOSING", "CLOSED"} => sent'[s] = sent[s]
      /\ \A s \in Sessions :
           readyState[s] = "CLOSED" =>
              /\ ~InClients(s) /\ readyState'[s] = "CLOSED"
              /\ unregister(clients', s) = clients'
      /\ \A i \in DOMAIN bcastLog' : ~bcastLog'[i].threw ]_vars

\* a call made after one socket had closed, which reached another socket
C5_Witness ==
  \E i \in DOMAIN bcastLog : \E s, t \in Sessions :
    /\ bcastLog[i].readyState[s] = "CLOSED" /\ ~RegisteredAt(bcastLog[i], s)
    /\ OpenAt(bcastLog[i], t) /\ Len(sent[t]) >= 1
    /\ ~bcastLog[i].threw

\* the frames socket s should hold: one per call that found it OPEN in the
\* registry, in call order
RECURSIVE FramesFor(_, _)
FramesFor(log, s) ==
  IF log = <<>> THEN <<>>
  ELSE LET e == log[Len(log)]
           before == FramesFor(SubSeq(log, 1, Len(log) - 1), s)
       IN IF OpenAt(e, s) THEN Append(before, JSONstringify(e.msg)) ELSE before

\* C6: the frames written to a socket are those of the broadcast calls that
\* found it OPEN, in the order of the calls, however the handlers interleave.
C6_PerSessionFifo == \A s \in Sessions : sent[s] = FramesFor(bcastLog, s)

\* two handlers interleaved (the second request broadcast first) and a socket
\* that stayed OPEN holds both frames
C6_Witness ==
  \E s \in Sessions :
    /\ readyState[s] = "OPEN" /\ Len(sent[s]) = 2
    /\ Len(bcastLog) = 2 /\ bcastLog[1].r > bcastLog[2].r

\* ------------------------------------------------------------------------
\* Properties of the browser's invalidation
\* ------------------------------------------------------------------------
\* C8 (as claimed): whatever event type of the server the handler was last
\* called with, that call invalidated at least one query key.
C8_InvalidationMappingTotal ==
  (lastMsg # Undefined /\ lastMsg.type \in ServerEventTypes) => invalidated # {}

\* C9 (as claimed): when the handler was last called with an inventory-count
\* event, that call invalidated both the inventory-count query and the
\* article query.
C9_CountEventInvalidatesArticles ==
  (lastMsg # Undefined
     /\ lastMsg.type \in {"inventory_count_created", "inventory_count_updated",
                          "inventory_count_deleted"})
    => {"/api/inventory-counts", "/api/articles"} \subseteq invalidated

\* the step in which the browser's onmessage runs on a frame of type t
OnMessageStepOf(t) ==
  /\ inbox # <<>> /\ inbox' = Tail(inbox)
  /\ JSONparse(Head(inbox)).type = t

\* C11 (as claimed): when a browser handles a data_cleared event, the
\* article, order-line and inventory-count queries are stale afterwards.
C11_DataClearedMarksThreeQueriesStale ==
  [][ OnMessageStepOf("data_cleared") => ClearDataKeys \subseteq stale' ]_vars

\* ------------------------------------------------------------------------
\* Properties of the imports and of the store
\* ------------------------------------------------------------------------
\* C12 (as claimed): when a handler is done, it has changed the store and
\* made its broadcast call, or it has done neither; an article import that
\* was answered 500 has left the articles stored before it in place.
C12_NoPartialApplication ==
  \A r \in Reqs :
    req[r].pc = "done" =>
      /\ (req[r].wrote > 0) <=> (nb(r) = 1)
      /\ (req[r].kind = "POST /api/articles/import" /\ req[r].resp = 500)
            => req[r].before.articles \subseteq DOMAIN articles

\* ------------------------------------------------------------------------
\* Properties of the error paths
\* ------------------------------------------------------------------------
\* C13 (as claimed): a request whose body does not have the shape its
\* resource's schema asks for is answered with an error status, has written
\* nothing to the store and has made no broadcast call.
C13_MalformedBodyRejected ==
  \A r \in Reqs :
    (req[r].pc = "done" /\ ~req[r].bodyOk) =>
      req[r].resp >= 400 /\ req[r].wrote = 0 /\ nb(r) = 0

\* the routes that name a record by the id in their path, and those among
\* them that check the body before they look for the record
RecordKinds ==
  {"PATCH /api/users/:id", "DELETE /api/users/:id", "PATCH /api/articles/:id",
   "POST /api/articles/:id/inventory", "PATCH /api/inventory-counts/:id",
   "DELETE /api/inventory-counts/:id", "POST /api/order-lines/:id/inventory"}
ValidatingKinds ==
  {"PATCH /api/users/:id", "POST /api/articles/:id/inventory",
   "PATCH /api/inventory-counts/:id", "POST /api/order-lines/:id/inventory"}

\* request r named an id that no record has, and has been answered
NamesMissingRecord(r) ==
  req[r].kind \in RecordKinds /\ req[r].pc = "done" /\ req[r].id = 0

StoreFailed(r) == req[r].pc = "done" /\ req[r].failed

\* C15 (as claimed): a request whose storage call failed has got a failure
\* response and has made no broadcast call.
C15_StoreFailureAnsweredWithoutEvent ==
  \A r \in Reqs : StoreFailed(r) => req[r].resp >= 400 /\ nb(r) = 0

C17_CountsReferToArticles ==
  \A c \in DOMAIN inventoryCounts : inventoryCounts[c].articleId \in DOMAIN articles

\* an article inventory found its article, an import or clear-data then
\* removed the article together with a count it had, and the insert of the
\* new count was refused
C17_Witness ==
  \E r, q \in Reqs :
    /\ req[r].kind = "POST /api/articles/:id/inventory"
    /\ req[r].loc # Undefined /\ StoreFailed(r)
    /\ req[r].id \notin DOMAIN articles
    /\ req[q].kind \in {"POST /api/articles/import", "POST /api/admin/clear-data"}
    /\ req[q].before.inventoryCounts # {}
    /\ req[q].before.inventoryCounts \cap DOMAIN inventoryCounts = {}

\* ------------------------------------------------------------------------
\* The registry
\* ------------------------------------------------------------------------
\* C18 (as claimed): every socket in the registry is OPEN and can be written
\* to, and a socket leaves the registry in the step in which it closes.
C18_RegistryHoldsOpenWritable ==
  [][ /\ \A i \in DOMAIN clients' :
           readyState'[clients'[i]] = "OPEN" /\ ~dead'[clients'[i]]
      /\ \A s \in Sessions :
           (readyState[s] # "CLOSED" /\ readyState'[s] = "CLOSED") =>
              (InClients(s) /\ unregister(clients', s) = clients') ]_vars

\* C19: the step in which a socket connects writes nothing to it, and a
\* socket never holds more frames than there were broadcast calls that found
\* it OPEN in the registry: an event broadcast before it connected never
\* reaches it.
C19_NoReplayOnConnect ==
  [][ /\ \A s \in Sessions :
           (readyState[s] = "NONE" /\ readyState'[s] = "OPEN") => sent'[s] = <<>>
      /\ \A s \in Sessions :
           Len(sent'[s]) = Cardinality({i \in DOMAIN bcastLog' : OpenAt(bcastLog'[i], s)})
    ]_vars

\* an event was broadcast to one socket before another connected; the later
\* socket is open and holds nothing
C19_Witness ==
  \E s, t \in Sessions :
    /\ Len(bcastLog) >= 1 /\ ~RegisteredAt(bcastLog[1], s) /\ OpenAt(bcastLog[1], t)
    /\ bcastLog[1].readyState[s] = "NONE"
    /\ readyState[s] = "OPEN" /\ sent[s] = <<>> /\ Len(sent[t]) >= 1

\* ------------------------------------------------------------------------
\* POST /api/articles/:id/inventory, step by step
\* ------------------------------------------------------------------------
ArticleInventory == "POST /api/articles/:id/inventory"

\* C20: the step in which an article inventory stores its count adds exactly
\* one record, with the article, count and user of the request, and changes
\* no article and no other count; the step in which the request is answered
\* 200 is its one call of broadcast, with the event inventory_count_created
\* whose data is the record that was stored, and its frame carries it.
C20_ArticleInventoryAddsOneCount ==
  [][ \A r \in Reqs :
        /\ (req[r].kind = ArticleInventory /\ req[r].pc = "check"
              /\ req'[r].pc = "broadcast") =>
             \E c \in DOMAIN inventoryCounts' \ DOMAIN inventoryCounts :
               /\ DOMAIN inventoryCounts' = DOMAIN inventoryCounts \cup {c}
               /\ \A d \in DOMAIN inventoryCounts : inventoryCounts'[d] = inventoryCounts[d]
               /\ inventoryCounts'[c].articleId = req[r].id
               /\ inventoryCounts'[c].count = req[r].num
               /\ inventoryCounts'[c].userId = req[r].userId
               /\ req[r].id \in DOMAIN articles /\ articles' = articles
               /\ req'[r].loc = inventoryCounts'[c]
        /\ (req[r].kind = ArticleInventory /\ req[r].pc # "done"
              /\ req'[r].pc = "done" /\ req'[r].resp = 200) =>
             /\ req[r].wrote = 1 /\ nb(r) = 0
             /\ IsBroadcastStep /\ ThisCall.r = r
             /\ ThisCall.msg = [type |-> "inventory_count_created", data |-> req[r].loc]
             /\ \A s \in Sessions :
                  OpenAt(ThisCall, s) =>
                    JSONparse(sent'[s][Len(sent'[s])]) = ThisCall.msg
             /\ UNCHANGED <<articles, inventoryCounts>> ]_vars

\* a count of 12 by user 1 for article 2 (ART-1) is stored next to the count
\* the article had, and an open socket holds the event with that record
C20_Witness ==
  \E r \in Reqs : \E c \in DOMAIN inventoryCounts : \E s \in Sessions :
    /\ req[r].kind = ArticleInventory /\ req[r].pc = "done" /\ req[r].resp = 200
    /\ req[r].id = 2 /\ req[r].num = 12 /\ req[r].userId = 1
    /\ inventoryCounts[c] = req[r].loc /\ 3 \in DOMAIN inventoryCounts /\ c # 3
    /\ readyState[s] = "OPEN" /\ Len(sent[s]) >= 1
    /\ \E j \in DOMAIN sent[s] :
         /\ JSONparse(sent[s][j]).type = "inventory_count_created"
         /\ JSONparse(sent[s][j]).data.count = 12
         /\ JSONparse(sent[s][j]).data.articleId = 2

\* ------------------------------------------------------------------------
\* PATCH /api/inventory-counts/:id, step by step
\* ------------------------------------------------------------------------
CountUpdate == "PATCH /api/inventory-counts/:id"

\* C21: the step in which an inventory-count update arrives changes, in the
\* record it names, only count and notes, and each of the two only when the
\* body carries it (then to the body's value); id, articleId, userId and
\* createdAt of the record stay, and no other record changes.  No later
\* step of the request changes a count.
C21_UpdateChangesOnlyGivenFields ==
  [][ \A r \in Reqs :
        /\ (req[r].pc = "idle" /\ req'[r].kind = CountUpdate) =>
             /\ DOMAIN inventoryCounts' = DOMAIN inventoryCounts
             /\ \A c \in DOMAIN inventoryCounts :
                  LET old == inventoryCounts[c]
                      new == inventoryCounts'[c]
                      body == req'[r].body IN
                  IF c # req'[r].id THEN new = old
                  ELSE /\ DOMAIN new = DOMAIN old
                       /\ \A k \in {"id", "articleId", "userId", "createdAt"} :
                            new[k] = old[k]
                       /\ \A k \in {"count", "notes"} :
                            new[k] = IF k \in DOMAIN body /\ req'[r].wrote = 1
                                     THEN body[k] ELSE old[k]
        /\ (req[r].kind = CountUpdate /\ req[r].pc # "idle" /\ req'[r] # req[r]) =>
             inventoryCounts' = inventoryCounts ]_vars

\* an update whose body carried only notes, and one whose body carried count
\* and an id, have both been applied to count 3, which keeps its article,
\* user and id and has the new notes and the new count
C21_Witness ==
  /\ \E r \in Reqs : req[r].kind = CountUpdate /\ req[r].pc = "done" /\ req[r].resp = 200
                       /\ req[r].id = 3 /\ DOMAIN req[r].body = {"notes"}
  /\ \E r \in Reqs : req[r].kind = CountUpdate /\ req[r].pc = "done" /\ req[r].resp = 200
                       /\ req[r].id = 3 /\ DOMAIN req[r].body = {"count", "id"}
  /\ 3 \in DOMAIN inventoryCounts
  /\ inventoryCounts[3] = [id |-> 3, articleId |-> 2, userId |-> 1, count |-> 12,
                           notes |-> 7, createdAt |-> 0]

\* ------------------------------------------------------------------------
\* POST /api/articles/import, step by step
\* ------------------------------------------------------------------------
ArticlesImport == "POST /api/articles/import"

\* C22 (as claimed): when an article import has stored its rows, the stored
\* articles are exactly the rows it created, one per sheet row with that
\* row's number, and no article or inventory count from before the import is
\* left; the step that answers it 200 is its one call of broadcast, with
\* the event articles_imported that carries the created rows.
C22_ImportReplacesCatalogue ==
  [][ \A r \in Reqs :
        /\ (req[r].kind = ArticlesImport /\ req[r].pc = "createArticles"
              /\ req'[r].pc = "broadcast") =>
             LET created == req'[r].loc.array
                 rows == req[r].loc.sheet IN
             /\ articles' = created
             /\ Cardinality(DOMAIN created) = Len(rows)
             /\ \A i \in DOMAIN rows :
                  \E a \in DOMAIN created : created[a].articleNumber = rows[i]
             /\ req[r].before.articles \cap DOMAIN articles' = {}
             /\ req[r].before.inventoryCounts \cap DOMAIN inventoryCounts' = {}
        /\ (req[r].kind = ArticlesImport /\ req[r].pc # "done"
              /\ req'[r].pc = "done" /\ req'[r].resp = 200) =>
             /\ nb(r) = 0 /\ IsBroadcastStep /\ ThisCall.r = r
             /\ ThisCall.msg = [type |-> "articles_imported", data |-> req[r].loc] ]_vars

\* ------------------------------------------------------------------------
\* clearAllData and the users
\* ------------------------------------------------------------------------
ClearData == "POST /api/admin/clear-data"

\* the store, read as the four maps of a MemStorage
AsMemStorage ==
  [users |-> users, articles |-> articles, orderLines |-> orderLines,
   inventoryCounts |-> inventoryCounts]

\* C23: no step of a clear-data request (that is, of clearAllData of the
\* DatabaseStorage) changes the users table, whatever the user routes do
\* between its steps; and MemStorage.clearAllData, applied to the store of
\* any reachable state, returns the same users map and empties the others.
C23_ClearAllDataKeepsUsers ==
  [][ /\ \A r \in Reqs :
           (req'[r].kind = ClearData /\ req'[r] # req[r]) => users' = users
      /\ memClearAllData(AsMemStorage).users = users
      /\ memClearAllData(AsMemStorage).articles = NoRows
      /\ memClearAllData(AsMemStorage).orderLines = NoRows
      /\ memClearAllData(AsMemStorage).inventoryCounts = NoRows ]_vars

\* a clear-data request that found rows in the three tables was answered
\* 200 after a user had been created beside it; Admin and the new user are
\* stored, the three tables hold none of the rows
C23_Witness ==
  \E r, q \in Reqs :
    /\ req[r].kind = ClearData /\ req[r].pc = "done" /\ req[r].resp = 200
    /\ req[r].before.articles # {} /\ req[r].before.inventoryCounts # {}
    /\ req[q].kind = "POST /api/users" /\ req[q].wrote = 1 /\ q < r
    /\ Cardinality(DOMAIN users) = 2 /\ users[1] = SeedUsers[1]
    /\ articles = NoRows /\ orderLines = NoRows /\ inventoryCounts = NoRows

\* C24: a clear-data request whose body carries no password or another one
\* than the right one takes one step: it is answered 401, that step leaves
\* articles, order lines and inventory counts as they are and calls no
\* broadcast, and the request has written nothing and broadcast nothing.
C24_WrongPasswordRejected ==
  [][ \A r \in Reqs :
        (/\ req'[r].kind = ClearData /\ req'[r] # req[r]
         /\ passwordOf(req'[r].body) # [string |-> "admin123"]) =>
          /\ req[r].pc = "idle"
          /\ req'[r].pc = "done" /\ req'[r].resp = 401
          /\ req'[r].wrote = 0
          /\ UNCHANGED <<articles, orderLines, inventoryCounts>>
          /\ ~IsBroadcastStep /\ sent' = sent
          /\ \A i \in DOMAIN bcastLog' : bcastLog'[i].r # r ]_vars

\* a request without a password and one with a wrong password have both
\* been answered 401; the sample rows are all stored and an open socket has
\* received nothing
C24_Witness ==
  /\ \E r \in Reqs : req[r].kind = ClearData /\ req[r].resp = 401
                       /\ passwordOf(req[r].body) = Undefined
  /\ \E r \in Reqs : req[r].kind = ClearData /\ req[r].resp = 401
                       /\ passwordOf(req[r].body) = [string |-> "guess"]
  /\ articles = SampleArticles /\ orderLines = SampleOrderLines
  /\ inventoryCounts = SampleCounts
  /\ \E s \in Sessions : readyState[s] = "OPEN" /\ sent[s] = <<>>

C26_UpdateEventCarriesRecord ==
  \A i \in DOMAIN bcastLog :
    bcastLog[i].msg.type \in {"order_line_inventoried", "article_updated"} =>
      /\ bcastLog[i].msg.data # Undefined
      /\ "id" \in DOMAIN bcastLog[i].msg.data

\* ------------------------------------------------------------------------
\* Inventoried order lines
\* ------------------------------------------------------------------------
\* C27 (as claimed): in every state, every stored order line that is marked
\* inventoried has the pick status "Plockat".
C27_InventoriedLinesArePicked ==
  \A o \in DOMAIN orderLines :
    orderLines[o].isInventoried => orderLines[o].pickStatus = "Plockat"

\* ------------------------------------------------------------------------
\* Concurrent deletes of one inventory count
\* ------------------------------------------------------------------------
CountDelete == "DELETE /api/inventory-counts/:id"

\* the delete requests that name count c, and those of them answered 200
DeletesOf(c) == {r \in Reqs : req[r].kind = CountDelete /\ req[r].id = c}
DeletedBy(c) == {r \in DeletesOf(c) : req[r].pc = "done" /\ req[r].resp = 200}

\* the calls of broadcast that announce the deletion of count c
DeletedEvents(c) ==
  {i \in DOMAIN bcastLog : /\ bcastLog[i].msg.type = "inventory_count_deleted"
                           /\ bcastLog[i].msg.data.id = c}

\* C28: of the delete requests that name the same inventory count, at most
\* one is answered 200 and at most one inventory_count_deleted event for the
\* count is broadcast; the request answered 200 has made exactly that one
\* call; every other one that is done was answered 404, has removed nothing
\* and has made no call; and once all of them are done and one of them had
\* found the count, exactly one was answered 200.
C28_OneDeleteSucceeds ==
  \A c \in {req[r].id : r \in Reqs} \ {0} :
    /\ Cardinality(DeletedBy(c)) <= 1
    /\ Cardinality(DeletedEvents(c)) = Cardinality(DeletedBy(c))
    /\ \A r \in DeletesOf(c) :
         IF r \in DeletedBy(c)
         THEN /\ req[r].wrote = 1 /\ nb(r) = 1
              /\ \A i \in CallsOf(r) : i \in DeletedEvents(c)
         ELSE /\ nb(r) = 0
              /\ req[r].pc = "done" => (req[r].resp = 404 /\ req[r].wrote = 0)
    /\ ((\E r \in DeletesOf(c) : req[r].loc # Undefined)
          /\ (\A r \in DeletesOf(c) : req[r].pc = "done"))
         => Cardinality(DeletedBy(c)) = 1

\* two delete requests both found count 3 before either deleted it; one was
\* answered 200, the other 404, the count is gone and an open socket holds
\* one frame
C28_Witness ==
  \E r, q \in Reqs : \E s \in Sessions :
    /\ r # q /\ {r, q} \subseteq DeletesOf(3)
    /\ req[r].loc # Undefined /\ req[q].loc # Undefined
    /\ req[r].pc = "done" /\ req[r].resp = 200
    /\ req[q].pc = "done" /\ req[q].resp = 404
    /\ 3 \notin DOMAIN inventoryCounts
    /\ readyState[s] = "OPEN" /\ Len(sent[s]) = 1

\* ------------------------------------------------------------------------
\* Inventorying an order line twice
\* ------------------------------------------------------------------------
LineInventory == "POST /api/order-lines/:id/inventory"

\* C29 (as claimed): when a request to inventory an order line found the
\* line already inventoried by an earlier request, its step behind the
\* look-up leaves inventoriedBy and inventoriedAt of the line as they are;
\* and no order line is ever announced as inventoried twice.
C29_InventoryIsIdempotent ==
  [][ /\ \A r \in Reqs :
           (/\ req[r].kind = LineInventory /\ req[r].pc = "check"
            /\ req'[r].pc # "check"
            /\ req[r].loc # Undefined
            /\ req[r].loc.isInventoried /\ req[r].loc.inventoriedBy # 0
            /\ req[r].id \in DOMAIN orderLines) =>
             /\ orderLines'[req[r].id].inventoriedBy = orderLines[req[r].id].inventoriedBy
             /\ orderLines'[req[r].id].inventoriedAt = orderLines[req[r].id].inventoriedAt
      /\ \A o \in DOMAIN orderLines :
           Cardinality({i \in DOMAIN bcastLog' :
                          /\ bcastLog'[i].msg.type = "order_line_inventoried"
                          /\ bcastLog'[i].msg.data # Undefined
                          /\ bcastLog'[i].msg.data.id = o}) <= 1 ]_vars

====
